---- MODULE Spec2Model ----
(***************************************************************************)
(* BPMN structural graph engine: the gateway closure reducer               *)
(* (generation/seq.py), the BPMN to Petri-net translator                   *)
(* (verification/bpmn_to_pt.py), the Jaccard and SSDT similarity metrics   *)
(* (benchmark/metrics/jaccard.py, ssdt.py) and the substitution of task    *)
(* symbols in CTL formulas (verification/ctl.py).                          *)
(***************************************************************************)
EXTENDS Integers, Sequences, FiniteSets, TLC

VARIABLES
    control_flow,   \* update_seq_with_gate: the caller's flow list F
    gateways,       \* update_seq_with_gate: the caller's gateway list G
    F_prime,        \* the list returned by the first call
    F_second,       \* the list returned by the call on F_prime
    stage,          \* "input" | "reduced" | "again" | "idle"
    stack,          \* call stack of add_*_actions_to_closure (frames)
    IC,             \* input closure set being accumulated
    OC,             \* output closure set being accumulated
    cursor,         \* position of the driver loop of lines 291-302
    status,         \* "idle" | "running" | "done" | "RecursionError"
    doc,            \* the BPMN document handed to convert_bpmn_to_petri_net
    lane_petri_nets, \* the per-lane nets, in the order of the lanes
    petri_net,      \* the merged net
    pnStage,        \* "input" | "converted" | "ParseError" | "idle"
    set1,           \* calculate_jaccard_similarity: first set of flow keys
    set2,           \* calculate_jaccard_similarity: second set of flow keys
    similarity,     \* the values returned, by call: "ab", "ba", "aa"
    benchmark_bpmn_xml, \* compare_bpmn_models: the benchmark document
    target_bpmn_xml,    \* compare_bpmn_models: the target document
    ssdt_result,    \* <<result>> once compare_bpmn_models returned one
    ssdt_saved,     \* <<result>> once save_ssdt_result wrote one
    ssdtStage,      \* "input" | "returned" | "ValueError" | "idle"
    petri_net_path, \* the PNML file at the path given to apply_ctl_transformation
    bpmn_symbols,   \* the task symbols of the symbol table, in its order
    ctl_constraints, \* the formulas to rewrite
    substitutions,  \* E of transform_ctl_on_pt, in insertion order
    transformed_constraints, \* the list apply_ctl_transformation returned
    ctlStage,       \* "input" | "returned" | "idle"
    updated_flow_result, \* <<dict>> returned by generate_updated_flow, <<>> for None
    bpmn_data,      \* <<dict>> once generate_bpmn_data assembled it
    bpmn_xml_content, \* apply_symbol_mappings_to_bpmn: the target document
    actor_mappings, \* the actor mapping list
    task_mappings,  \* the task mapping list
    unified_bpmn,   \* <<document>> once apply_symbol_mappings_to_bpmn returned
    unifyStage      \* "input" | "returned" | "idle"

vars == <<control_flow, gateways, F_prime, F_second, stage,
          stack, IC, OC, cursor, status,
          doc, lane_petri_nets, petri_net, pnStage,
          set1, set2, similarity,
          benchmark_bpmn_xml, target_bpmn_xml, ssdt_result, ssdt_saved, ssdtStage,
          petri_net_path, bpmn_symbols, ctl_constraints, substitutions,
          transformed_constraints, ctlStage,
          updated_flow_result, bpmn_data,
          bpmn_xml_content, actor_mappings, task_mappings, unified_bpmn, unifyStage>>

closureVars == <<control_flow, gateways, F_prime, F_second, stage>>
recVars == <<stack, IC, OC, cursor, status>>
netVars == <<doc, lane_petri_nets, petri_net, pnStage>>
jacVars == <<set1, set2, similarity>>
ssdtVars == <<benchmark_bpmn_xml, target_bpmn_xml, ssdt_result, ssdt_saved, ssdtStage>>
ctlVars == <<petri_net_path, bpmn_symbols, ctl_constraints, substitutions,
             transformed_constraints, ctlStage>>
asmVars == <<updated_flow_result, bpmn_data>>
uniVars == <<bpmn_xml_content, actor_mappings, task_mappings, unified_bpmn, unifyStage>>

(***************************************************************************)
(* Bounds and universes                                                    *)
(***************************************************************************)
MaxFlows == 2
MaxRefs == 2
RecursionLimit == 5
MaxTasks == 2
MaxSeqFlows == 2

Tasks == <<"A", "B", "C">>
GwSyms == <<"g1", "g2">>
Actors == {"Clerk"}

Range(s) == {s[i] : i \in DOMAIN s}

RECURSIVE SeqOfIndices(_, _, _)
SeqOfIndices(universe, idx, k) ==
    IF k > Len(universe) THEN <<>>
    ELSE IF k \in idx THEN <<universe[k]>> \o SeqOfIndices(universe, idx, k + 1)
    ELSE SeqOfIndices(universe, idx, k + 1)

\* the non-empty reference lists of at most maxRefs members over a universe
RefLists(universe, maxRefs) ==
    {SeqOfIndices(universe, idx, 1) :
        idx \in {s \in SUBSET (1..Len(universe)) :
                    Cardinality(s) >= 1 /\ Cardinality(s) <= maxRefs}}

SeqsUpTo(S, n) == UNION {[1..k -> S] : k \in 0..n}

(***************************************************************************)
(* generation/seq.py: update_seq_with_gate                                 *)
(***************************************************************************)
Flow(a, f, t) == [actor |-> a, from |-> f, to |-> t]

Gateway(g, ins, outs) == [gateway_symbol |-> g, from_tasks |-> ins, to_tasks |-> outs]

\* gateway_map = {gw['gateway_symbol']: gw for gw in gateways}: the last wins
gateway_map_keys(G) == {G[i].gateway_symbol : i \in DOMAIN G}

gateway_map(G, sym) ==
    LET last == CHOOSE i \in DOMAIN G :
                    /\ G[i].gateway_symbol = sym
                    /\ \A j \in DOMAIN G : G[j].gateway_symbol = sym => j <= i
    IN  G[last]

RECURSIVE add_input_actions_to_closure(_, _, _)
RECURSIVE add_inputs(_, _, _)
add_inputs(G, list, closure) ==
    IF list = <<>> THEN closure
    ELSE add_inputs(G, Tail(list), add_input_actions_to_closure(G, Head(list), closure))

add_input_actions_to_closure(G, element, closure) ==
    IF element \in gateway_map_keys(G)
    THEN add_inputs(G, gateway_map(G, element).from_tasks, closure)
    ELSE closure \cup {element}

RECURSIVE add_output_actions_to_closure(_, _, _)
RECURSIVE add_outputs(_, _, _)
add_outputs(G, list, closure) ==
    IF list = <<>> THEN closure
    ELSE add_outputs(G, Tail(list), add_output_actions_to_closure(G, Head(list), closure))

add_output_actions_to_closure(G, element, closure) ==
    IF element \in gateway_map_keys(G)
    THEN add_outputs(G, gateway_map(G, element).to_tasks, closure)
    ELSE closure \cup {element}

\* lines 290-302: one IC and one OC accumulated over all the gateways
RECURSIVE InputClosure(_, _, _)
InputClosure(G, k, closure) ==
    IF k > Len(G) THEN closure
    ELSE InputClosure(G, k + 1, add_inputs(G, G[k].from_tasks, closure))

RECURSIVE OutputClosure(_, _, _)
OutputClosure(G, k, closure) ==
    IF k > Len(G) THEN closure
    ELSE OutputClosure(G, k + 1, add_outputs(G, G[k].to_tasks, closure))

\* lines 304-313
flows_to_remove(F, ic, oc) ==
    SelectSeq(F, LAMBDA flow : flow.from \in ic /\ flow.to \in oc)

\* list.remove(x): drops the first element equal to x
RECURSIVE ListRemove(_, _)
ListRemove(F, x) ==
    IF F = <<>> THEN <<>>
    ELSE IF Head(F) = x THEN Tail(F)
    ELSE <<Head(F)>> \o ListRemove(Tail(F), x)

\* lines 315-317
RECURSIVE RemoveFlows(_, _)
RemoveFlows(F, rem) ==
    IF rem = <<>> THEN F
    ELSE RemoveFlows(ListRemove(F, Head(rem)), Tail(rem))

GATEWAY == "GATEWAY"

\* variant: the presence test is dropped, every gateway flow is appended
HasFlowNever(F, u, v) == FALSE

\* lines 328, 339: any(flow['from'] == u and flow['to'] == v for flow in F_prime)
HasFlow(F, u, v) == \E i \in DOMAIN F : F[i].from = u /\ F[i].to = v

\* variant: the synthesized flow carries an ordinary actor
GatewayFlowUnmarked(u, v) == Flow("Clerk", u, v)

\* lines 330-334, 341-345
GatewayFlow(u, v) == Flow(GATEWAY, u, v)

\* lines 326-334
RECURSIVE AddInputFlows(_, _, _)
AddInputFlows(F, g, list) ==
    IF list = <<>> THEN F
    ELSE AddInputFlows(
            IF HasFlow(F, Head(list), g) THEN F
            ELSE Append(F, GatewayFlow(Head(list), g)),
            g, Tail(list))

\* lines 337-345
RECURSIVE AddOutputFlows(_, _, _)
AddOutputFlows(F, g, list) ==
    IF list = <<>> THEN F
    ELSE AddOutputFlows(
            IF HasFlow(F, g, Head(list)) THEN F
            ELSE Append(F, GatewayFlow(g, Head(list))),
            g, Tail(list))

\* lines 319-345
RECURSIVE AddGatewayFlows(_, _, _)
AddGatewayFlows(F, G, k) ==
    IF k > Len(G) THEN F
    ELSE AddGatewayFlows(
            AddOutputFlows(
                AddInputFlows(F, G[k].gateway_symbol, G[k].from_tasks),
                G[k].gateway_symbol, G[k].to_tasks),
            G, k + 1)

\* lines 304-317: F' after the removals
AfterRemoval(F, G) ==
    RemoveFlows(F, flows_to_remove(F, InputClosure(G, 1, {}), OutputClosure(G, 1, {})))

update_seq_with_gate(F, G) == AddGatewayFlows(AfterRemoval(F, G), G, 1)

\* variant: F_prime = control_flow, the list object of the caller
list_alias(object) == object

\* line 251: control_flow.copy() is a new list object; F_prime.remove (316)
\* and F_prime.append (328, 340) act on it
list_copy(object) == "F_prime"

\* the list the caller passed as control_flow, after the call: the removals
\* and appends reach it only if F_prime is the same object. The records of
\* the flows and of the gateways are read (flow.get, gw[...]) and not written.
CallerList(F, G) ==
    IF list_copy("control_flow") = "control_flow" THEN update_seq_with_gate(F, G) ELSE F

(***************************************************************************)
(* Inputs of the closure reducer                                           *)
(***************************************************************************)
\* flows between two tasks, and the flows that already touch gateway g1
FlowEnds ==
    {<<"A", "B">>, <<"B", "C">>, <<"A", "C">>, <<"A", "g1">>, <<"g1", "B">>}

Flows == {Flow(a, e[1], e[2]) : a \in Actors, e \in FlowEnds}

\* gateway lists whose references are acyclic: g1 may nest g2, g2 refers to
\* the tasks B and C
Gateway1s(maxRefs) ==
    {Gateway(GwSyms[1], i, o) :
        i \in RefLists(Tasks \o <<GwSyms[2]>>, maxRefs),
        o \in RefLists(Tasks \o <<GwSyms[2]>>, maxRefs)}

Gateway2s(maxRefs) ==
    {Gateway(GwSyms[2], i, o) :
        i \in RefLists(Tail(Tasks), maxRefs), o \in RefLists(Tail(Tasks), maxRefs)}

AcyclicGatewayLists(maxRefs) ==
    {<<>>} \cup {<<g>> : g \in Gateway1s(maxRefs)}
    \cup {<<g, h>> : g \in Gateway1s(maxRefs), h \in Gateway2s(maxRefs)}

(***************************************************************************)
(* verification/bpmn_to_pt.py: MultiLaneBpmnToPetriNetConverter            *)
(***************************************************************************)
\* the defaults of the naming convention (lines 221-233, 339-341)
START_PLACE_PREFIX == "p_start_"
END_PLACE_PREFIX == "p_end_"
PRE_PLACE_PREFIX == "p_pre_"
POST_PLACE_PREFIX == "p_post_"
TRANSITION_PREFIX == "t_"
MESSAGE_PLACE_PREFIX == "p_msg_"

Arc(s, t) == [source |-> s, target |-> t]

EmptyMarking == [p \in {} |-> 0]

\* lines 209-215, 320-326
EmptyNet ==
    [places |-> <<>>, transitions |-> <<>>, arcs |-> <<>>,
     initial_marking |-> EmptyMarking, final_markings |-> <<>>]

\* ET.parse(bpmn_file_path) at lines 103 and 409: xml.etree raises ParseError
\* on a file that is not well-formed
ParseRaises(d) == ~d.wellformed

\* parse_bpmn_collaboration: lanes and message flows are read only under a
\* collaboration element; processes are read wherever they are
parse_bpmn_collaboration(d) ==
    [lanes |-> IF d.collaboration THEN d.participants ELSE <<>>,
     message_flows |-> IF d.collaboration THEN d.message_flows ELSE <<>>,
     processes |-> d.processes]

\* lines 237-246, 255-264, 267-276: pre-place, post-place and transition of a node
AddNode(net, id) ==
    LET pre_place == PRE_PLACE_PREFIX \o id
        post_place == POST_PLACE_PREFIX \o id
        transition == TRANSITION_PREFIX \o id
    IN  [net EXCEPT !.places = @ \o <<pre_place, post_place>>,
                    !.transitions = Append(@, transition),
                    !.arcs = @ \o <<Arc(pre_place, transition), Arc(transition, post_place)>>]

\* lines 235-246
RECURSIVE AddTasks(_, _)
AddTasks(net, tasks) ==
    IF tasks = <<>> THEN net
    ELSE AddTasks(AddNode(net, Head(tasks).id), Tail(tasks))

\* A tag name is kept as its camel-case words, <<"exclusive", "Gateway">> for
\* exclusiveGateway, and `word in tag` of the code is the case-sensitive
\* search for that word among them.
HasWord(tag, word) == \E i \in DOMAIN tag : tag[i] = word

\* 'Exclusive' in gateway_type or 'Inclusive' in gateway_type (line 253)
IsExclusiveOrInclusive(gateway_type) ==
    HasWord(gateway_type, "Exclusive") \/ HasWord(gateway_type, "Inclusive")

\* 'Parallel' in gateway_type (line 265)
IsParallel(gateway_type) == HasWord(gateway_type, "Parallel")

\* lines 249-276
RECURSIVE AddGateways(_, _)
AddGateways(net, gws) ==
    IF gws = <<>> THEN net
    ELSE AddGateways(
            IF IsExclusiveOrInclusive(Head(gws).type) THEN AddNode(net, Head(gws).id)
            ELSE IF IsParallel(Head(gws).type) THEN AddNode(net, Head(gws).id)
            ELSE net,
            Tail(gws))

\* variant: the start-event test is dropped
SourcePlaceNoStart(process_info, start_place, source) == POST_PLACE_PREFIX \o source

\* lines 288-291
SourcePlace(process_info, start_place, source) ==
    IF \E i \in DOMAIN process_info.start_events : process_info.start_events[i].id = source
    THEN start_place
    ELSE POST_PLACE_PREFIX \o source

\* lines 294-297
TargetPlace(process_info, end_place, target) ==
    IF \E i \in DOMAIN process_info.end_events : process_info.end_events[i].id = target
    THEN end_place
    ELSE PRE_PLACE_PREFIX \o target

\* variant: the arc of a sequence flow is added without looking for its places
RECURSIVE AddSequenceFlowsUnguarded(_, _, _, _, _)
AddSequenceFlowsUnguarded(net, process_info, start_place, end_place, flows) ==
    IF flows = <<>> THEN net
    ELSE AddSequenceFlowsUnguarded(
            [net EXCEPT !.arcs = Append(@,
                Arc(SourcePlace(process_info, start_place, Head(flows).source),
                    TargetPlace(process_info, end_place, Head(flows).target)))],
            process_info, start_place, end_place, Tail(flows))

\* lines 279-304
RECURSIVE AddSequenceFlows(_, _, _, _, _)
AddSequenceFlows(net, process_info, start_place, end_place, flows) ==
    IF flows = <<>> THEN net
    ELSE LET source_place == SourcePlace(process_info, start_place, Head(flows).source)
             target_place == TargetPlace(process_info, end_place, Head(flows).target)
         IN  AddSequenceFlows(
                IF source_place \in Range(net.places) /\ target_place \in Range(net.places)
                THEN [net EXCEPT !.arcs = Append(@, Arc(source_place, target_place))]
                ELSE net,
                process_info, start_place, end_place, Tail(flows))

\* lines 198-306
convert_lane_to_petri_net(lane_info, process_info) ==
    LET start_place == START_PLACE_PREFIX \o lane_info.name
        end_place == END_PLACE_PREFIX \o lane_info.name
        net0 == [EmptyNet EXCEPT !.places = <<start_place, end_place>>,
                                 !.initial_marking = (start_place :> 1)]
    IN  AddSequenceFlows(
            AddGateways(AddTasks(net0, process_info.tasks), process_info.gateways),
            process_info, start_place, end_place, process_info.sequence_flows)

\* process_ref in collaboration_info['processes'] (line 386)
HasProcess(processes, ref) == \E i \in DOMAIN processes : processes[i].id = ref

ProcessOf(processes, ref) ==
    processes[CHOOSE i \in DOMAIN processes : processes[i].id = ref]

\* lines 383-390: the lanes whose process exists, each with its net
RECURSIVE LaneNets(_, _)
LaneNets(lanes, processes) ==
    IF lanes = <<>> THEN <<>>
    ELSE (IF HasProcess(processes, Head(lanes).process_ref)
          THEN <<[lane_id |-> Head(lanes).id,
                  net |-> convert_lane_to_petri_net(
                            Head(lanes), ProcessOf(processes, Head(lanes).process_ref))]>>
          ELSE <<>>)
         \o LaneNets(Tail(lanes), processes)

\* lines 329-333
RECURSIVE MergeLanes(_, _)
MergeLanes(merged, nets) ==
    IF nets = <<>> THEN merged
    ELSE MergeLanes(
            [merged EXCEPT !.places = @ \o Head(nets).net.places,
                           !.transitions = @ \o Head(nets).net.transitions,
                           !.arcs = @ \o Head(nets).net.arcs,
                           !.initial_marking = Head(nets).net.initial_marking @@ @],
            Tail(nets))

\* variant: both arcs of a message flow are added without looking for the
\* transitions
RECURSIVE AddMessageFlowsUnguarded(_, _)
AddMessageFlowsUnguarded(merged, message_flows) ==
    IF message_flows = <<>> THEN merged
    ELSE LET msg_flow == Head(message_flows)
             message_place == MESSAGE_PLACE_PREFIX \o msg_flow.id
         IN  AddMessageFlowsUnguarded(
                [merged EXCEPT
                    !.places = Append(@, message_place),
                    !.arcs = @ \o <<Arc(TRANSITION_PREFIX \o msg_flow.source, message_place),
                                    Arc(message_place, TRANSITION_PREFIX \o msg_flow.target)>>],
                Tail(message_flows))

\* lines 343-365
RECURSIVE AddMessageFlows(_, _)
AddMessageFlows(merged, message_flows) ==
    IF message_flows = <<>> THEN merged
    ELSE LET msg_flow == Head(message_flows)
             message_place == MESSAGE_PLACE_PREFIX \o msg_flow.id
             source_transition == TRANSITION_PREFIX \o msg_flow.source
             target_transition == TRANSITION_PREFIX \o msg_flow.target
             withPlace == [merged EXCEPT !.places = Append(@, message_place)]
             withSource ==
                IF source_transition \in Range(withPlace.transitions)
                THEN [withPlace EXCEPT !.arcs = Append(@, Arc(source_transition, message_place))]
                ELSE withPlace
             withTarget ==
                IF target_transition \in Range(withSource.transitions)
                THEN [withSource EXCEPT !.arcs = Append(@, Arc(message_place, target_transition))]
                ELSE withSource
         IN  AddMessageFlows(withTarget, Tail(message_flows))

\* lines 308-367
merge_petri_nets_with_message_flows(nets, message_flows) ==
    AddMessageFlows(MergeLanes(EmptyNet, nets), message_flows)

\* lines 369-398
convert_collaboration_bpmn_to_petri_net(d) ==
    LET collaboration_info == parse_bpmn_collaboration(d)
    IN  merge_petri_nets_with_message_flows(
            LaneNets(collaboration_info.lanes, collaboration_info.processes),
            collaboration_info.message_flows)

(***************************************************************************)
(* Inputs of the translator: BPMN documents                                *)
(***************************************************************************)
Node(id, type) == [id |-> id, type |-> type]

SeqFlow(s, t) == [source |-> s, target |-> t]

\* the gateway elements of BPMN 2.0, by the words of their tag names
GatewayTags ==
    {<<"exclusive", "Gateway">>, <<"inclusive", "Gateway">>,
     <<"parallel", "Gateway">>, <<"event", "Based", "Gateway">>}

\* 'Gateway' in gateway.tag (line 181); the type is the tag name (line 185)
GatewayNodes(elements) == SelectSeq(elements, LAMBDA e : HasWord(e.type, "Gateway"))

Prefix(s, n) == SubSeq(s, 1, IF n < Len(s) THEN n ELSE Len(s))

TaskNodes(ids) == [i \in DOMAIN ids |-> Node(ids[i], "task")]

Process(id, tasks, gws, start, end, flows) ==
    [id |-> id, tasks |-> tasks, gateways |-> GatewayNodes(gws),
     start_events |-> <<Node(start, "startEvent")>>,
     end_events |-> <<Node(end, "endEvent")>>,
     sequence_flows |-> flows]

\* the first process: up to maxTasks tasks, at most one gateway
P1TaskIds == <<"T1", "T2", "T4", "T5">>

P1FlowEnds ==
    {SeqFlow("S1", "T1"), SeqFlow("T1", "E1"), SeqFlow("T1", "T2"),
     SeqFlow("T1", "G1"), SeqFlow("G1", "T2")}

Process1s(maxTasks, maxSeqFlows) ==
    {Process("P1", TaskNodes(Prefix(P1TaskIds, n)), gws, "S1", "E1", flows) :
        n \in 0..maxTasks,
        gws \in {<<>>} \cup {<<Node("G1", ty)>> : ty \in GatewayTags},
        flows \in SeqsUpTo(P1FlowEnds, maxSeqFlows)}

\* the second process: empty, or one task reached from the start event
Process2s ==
    {Process("P2", <<>>, <<>>, "S2", "E2", <<>>),
     Process("P2", TaskNodes(<<"T3">>), <<>>, "S2", "E2", <<SeqFlow("S2", "T3")>>),
     Process("P2", TaskNodes(<<"T3">>), <<>>, "S2", "E2",
             <<SeqFlow("S2", "T3"), SeqFlow("T3", "E2")>>)}

ProcessLists(maxTasks, maxSeqFlows) ==
    {<<p>> : p \in Process1s(maxTasks, maxSeqFlows)}
    \cup {<<p, q>> : p \in Process1s(maxTasks, maxSeqFlows), q \in Process2s}

LaneNames == {"Buyer", "Seller"}

Participants(id, names, refs) ==
    {[id |-> id, name |-> n, process_ref |-> r] : n \in names, r \in refs}

\* the first lane is named Buyer and runs P1; the second has the same name
\* or another, and runs P1 or P2, which may be missing from the document
ParticipantLists ==
    {<<>>} \cup {<<a>> : a \in Participants("Part1", {"Buyer"}, {"P1"})}
    \cup {<<a, b>> : a \in Participants("Part1", {"Buyer"}, {"P1"}),
                     b \in Participants("Part2", LaneNames, {"P1", "P2"})}

\* between two tasks, or to a node that has no transition
MessageFlowLists ==
    {<<>>} \cup
    {<<[id |-> "m1", source |-> e[1], target |-> e[2]]>> :
        e \in {<<"T1", "T3">>, <<"T1", "S2">>}}
    \cup {<<[id |-> "m1", source |-> "T1", target |-> "T3"],
            [id |-> "m2", source |-> "T3", target |-> "T1"]>>}

\* participants and message flows are children of the collaboration element
WellFormedDocuments(maxTasks, maxSeqFlows) ==
    {[wellformed |-> TRUE, collaboration |-> TRUE, participants |-> ps,
      message_flows |-> ms, processes |-> procs] :
        ps \in ParticipantLists, ms \in MessageFlowLists,
        procs \in ProcessLists(maxTasks, maxSeqFlows)}
    \cup
    {[wellformed |-> TRUE, collaboration |-> FALSE, participants |-> <<>>,
      message_flows |-> <<>>, processes |-> procs] :
        procs \in ProcessLists(maxTasks, maxSeqFlows)}

\* a file that is not well-formed XML: the elements written in it before the
\* fault are those of a document without tasks or flows
MalformedDocuments ==
    {[d EXCEPT !.wellformed = FALSE] : d \in WellFormedDocuments(0, 0)}

Documents(maxTasks, maxSeqFlows) ==
    WellFormedDocuments(maxTasks, maxSeqFlows) \cup MalformedDocuments

NetIdle ==
    /\ doc = [wellformed |-> TRUE, collaboration |-> FALSE, participants |-> <<>>,
              message_flows |-> <<>>, processes |-> <<>>]
    /\ lane_petri_nets = <<>>
    /\ petri_net = EmptyNet
    /\ pnStage = "idle"

JacIdle ==
    /\ set1 = {}
    /\ set2 = {}
    /\ similarity = <<>>

SsdtIdle ==
    /\ benchmark_bpmn_xml = <<>>
    /\ target_bpmn_xml = <<>>
    /\ ssdt_result = <<>>
    /\ ssdt_saved = <<>>
    /\ ssdtStage = "idle"

CtlIdle ==
    /\ petri_net_path = <<>>
    /\ bpmn_symbols = <<>>
    /\ ctl_constraints = <<>>
    /\ substitutions = <<>>
    /\ transformed_constraints = <<>>
    /\ ctlStage = "idle"

AsmIdle ==
    /\ updated_flow_result = <<>>
    /\ bpmn_data = <<>>

UniIdle ==
    /\ bpmn_xml_content = <<>>
    /\ actor_mappings = <<>>
    /\ task_mappings = <<>>
    /\ unified_bpmn = <<>>
    /\ unifyStage = "idle"

(***************************************************************************)
(* Spec: the closure reducer applied to a flow list and then to its result *)
(***************************************************************************)
RecIdle ==
    /\ stack = <<>>
    /\ IC = {}
    /\ OC = {}
    /\ cursor = [g |-> 0, dir |-> "in", t |-> 0]
    /\ status = "idle"

Init ==
    /\ control_flow \in SeqsUpTo(Flows, MaxFlows)
    /\ gateways \in AcyclicGatewayLists(MaxRefs)
    /\ F_prime = <<>>
    /\ F_second = <<>>
    /\ stage = "input"
    /\ RecIdle
    /\ NetIdle
    /\ JacIdle
    /\ SsdtIdle
    /\ CtlIdle
    /\ AsmIdle
    /\ UniIdle

Reduce ==
    /\ stage = "input"
    /\ F_prime' = update_seq_with_gate(control_flow, gateways)
    /\ control_flow' = CallerList(control_flow, gateways)
    /\ stage' = "reduced"
    /\ UNCHANGED <<asmVars, uniVars, gateways, F_second, recVars, netVars, jacVars, ssdtVars, ctlVars>>

ReduceAgain ==
    /\ stage = "reduced"
    /\ F_second' = update_seq_with_gate(F_prime, gateways)
    /\ F_prime' = CallerList(F_prime, gateways)
    /\ stage' = "again"
    /\ UNCHANGED <<asmVars, uniVars, control_flow, gateways, recVars, netVars, jacVars, ssdtVars, ctlVars>>

Next == Reduce \/ ReduceAgain

Spec == Init /\ [][Next]_vars

(***************************************************************************)
(* generation/seq.py generate_updated_flow and 11.py generate_bpmn_data:   *)
(* the control flow handed on to the BPMN assembly                         *)
(***************************************************************************)
\* seq.py lines 393-399 and 417-423, 427-450: None (<<>>) when the control
\* flow or the gateway list is empty, the dictionary otherwise
generate_updated_flow(flows, gws) ==
    IF flows = <<>> THEN <<>>
    ELSE IF gws = <<>> THEN <<>>
    ELSE <<[original_control_flow |-> flows,
            gateways |-> gws,
            updated_control_flow |-> update_seq_with_gate(flows, gws)]>>

\* 11.py lines 100-108 and 131-132: the control_flow and gateways entries of
\* bpmn_data, for the control flow and the gateways of the stage files
generate_bpmn_data(flows, gws) ==
    LET updated_flow_result_ == generate_updated_flow(flows, gws)
    IN  IF updated_flow_result_ = <<>>
        THEN [control_flow |-> <<>>, gateways |-> <<>>]
        ELSE [control_flow |-> updated_flow_result_[1].updated_control_flow,
              gateways |-> updated_flow_result_[1].gateways]

(***************************************************************************)
(* SpecAssembly: generate_updated_flow called by itself, and               *)
(* generate_bpmn_data with its call of generate_updated_flow, on the       *)
(* control flow and the gateways read from seq_output.json and             *)
(* gate_output.json                                                        *)
(***************************************************************************)
InitAssembly ==
    /\ control_flow \in SeqsUpTo(Flows, MaxFlows)
    /\ gateways \in AcyclicGatewayLists(MaxRefs)
    /\ F_prime = <<>>
    /\ F_second = <<>>
    /\ stage = "loaded"
    /\ RecIdle
    /\ NetIdle
    /\ JacIdle
    /\ SsdtIdle
    /\ CtlIdle
    /\ AsmIdle
    /\ UniIdle

\* seq.py lines 350-450
GenerateUpdatedFlow ==
    /\ stage = "loaded"
    /\ updated_flow_result' = generate_updated_flow(control_flow, gateways)
    /\ control_flow' = IF control_flow # <<>> /\ gateways # <<>>
                       THEN CallerList(control_flow, gateways)
                       ELSE control_flow
    /\ stage' = "generated"
    /\ UNCHANGED <<gateways, F_prime, F_second, bpmn_data,
                   recVars, netVars, jacVars, ssdtVars, ctlVars, uniVars>>

\* 11.py lines 100-105: generate_updated_flow returned None
AssembleDefaults ==
    /\ stage = "loaded"
    /\ generate_updated_flow(control_flow, gateways) = <<>>
    /\ updated_flow_result' = <<>>
    /\ bpmn_data' = <<generate_bpmn_data(control_flow, gateways)>>
    /\ stage' = "assembled"
    /\ UNCHANGED <<control_flow, gateways, F_prime, F_second,
                   recVars, netVars, jacVars, ssdtVars, ctlVars, uniVars>>

\* 11.py lines 100-108: generate_updated_flow returned its dictionary
AssembleUpdatedFlow ==
    /\ stage = "loaded"
    /\ generate_updated_flow(control_flow, gateways) # <<>>
    /\ updated_flow_result' = generate_updated_flow(control_flow, gateways)
    /\ bpmn_data' = <<generate_bpmn_data(control_flow, gateways)>>
    /\ control_flow' = CallerList(control_flow, gateways)
    /\ stage' = "assembled"
    /\ UNCHANGED <<gateways, F_prime, F_second,
                   recVars, netVars, jacVars, ssdtVars, ctlVars, uniVars>>

NextAssembly == GenerateUpdatedFlow \/ AssembleDefaults \/ AssembleUpdatedFlow

SpecAssembly == InitAssembly /\ [][NextAssembly]_vars

(***************************************************************************)
(* SpecCyclic: lines 256-302 step by step, one action per call, return or  *)
(* loop step, over gateway lists whose references may be cyclic            *)
(***************************************************************************)
CycElems == <<"A", "g1", "g2">>

AnyGatewayLists(maxRefs) ==
    LET gws(sym) ==
            {Gateway(sym, i, o) :
                i \in RefLists(CycElems, maxRefs), o \in RefLists(CycElems, maxRefs)}
    IN  {<<>>} \cup {<<g>> : g \in gws(GwSyms[1])}
        \cup {<<g, h>> : g \in gws(GwSyms[1]), h \in gws(GwSyms[2])}

Frame(e, d) == [element |-> e, dir |-> d, next |-> 1]

\* gateway['from_tasks'] (line 267) or gateway['to_tasks'] (line 284)
RefsOf(gw, d) == IF d = "in" THEN gw.from_tasks ELSE gw.to_tasks

Top == stack[Len(stack)]

Pop == SubSeq(stack, 1, Len(stack) - 1)

InitCyclic ==
    /\ control_flow = <<>>
    /\ gateways \in AnyGatewayLists(MaxRefs)
    /\ F_prime = <<>>
    /\ F_second = <<>>
    /\ stage = "idle"
    /\ stack = <<>>
    /\ IC = {}
    /\ OC = {}
    /\ cursor = [g |-> 1, dir |-> "in", t |-> 1]
    /\ status = "running"
    /\ NetIdle
    /\ JacIdle
    /\ SsdtIdle
    /\ CtlIdle
    /\ AsmIdle
    /\ UniIdle

\* lines 297-298, 301-302: the loop body calls the recursive helper
LoopCall ==
    /\ status = "running" /\ stack = <<>>
    /\ cursor.g <= Len(gateways)
    /\ cursor.t <= Len(RefsOf(gateways[cursor.g], cursor.dir))
    /\ stack' = <<Frame(RefsOf(gateways[cursor.g], cursor.dir)[cursor.t], cursor.dir)>>
    /\ cursor' = [cursor EXCEPT !.t = @ + 1]
    /\ UNCHANGED <<asmVars, uniVars, closureVars, netVars, jacVars, ssdtVars, ctlVars, IC, OC, status>>

\* lines 291-302: from the inputs to the outputs, then to the next gateway
LoopAdvance ==
    /\ status = "running" /\ stack = <<>>
    /\ cursor.g <= Len(gateways)
    /\ cursor.t > Len(RefsOf(gateways[cursor.g], cursor.dir))
    /\ cursor' = IF cursor.dir = "in"
                  THEN [g |-> cursor.g, dir |-> "out", t |-> 1]
                  ELSE [g |-> cursor.g + 1, dir |-> "in", t |-> 1]
    /\ UNCHANGED <<asmVars, uniVars, closureVars, netVars, jacVars, ssdtVars, ctlVars, stack, IC, OC, status>>

LoopDone ==
    /\ status = "running" /\ stack = <<>>
    /\ cursor.g > Len(gateways)
    /\ status' = "done"
    /\ UNCHANGED <<asmVars, uniVars, closureVars, netVars, jacVars, ssdtVars, ctlVars, stack, IC, OC, cursor>>

\* lines 269-271, 286-288: a task is added to the closure
AddLeaf ==
    /\ status = "running" /\ stack # <<>>
    /\ Top.element \notin gateway_map_keys(gateways)
    /\ IF Top.dir = "in"
       THEN IC' = IC \cup {Top.element} /\ OC' = OC
       ELSE OC' = OC \cup {Top.element} /\ IC' = IC
    /\ stack' = Pop
    /\ UNCHANGED <<asmVars, uniVars, closureVars, netVars, jacVars, ssdtVars, ctlVars, cursor, status>>

\* lines 264-268, 281-285: the helper calls itself on the next reference
Recurse ==
    /\ status = "running" /\ stack # <<>>
    /\ Top.element \in gateway_map_keys(gateways)
    /\ LET refs == RefsOf(gateway_map(gateways, Top.element), Top.dir)
       IN  /\ Top.next <= Len(refs)
           /\ IF Len(stack) < RecursionLimit
              THEN /\ stack' = Append([stack EXCEPT ![Len(stack)].next = @ + 1],
                                      Frame(refs[Top.next], Top.dir))
                   /\ status' = status
              ELSE \* the interpreter's stack is exhausted: the call raises
                   /\ stack' = <<>>
                   /\ status' = "RecursionError"
    /\ UNCHANGED <<asmVars, uniVars, closureVars, netVars, jacVars, ssdtVars, ctlVars, IC, OC, cursor>>

\* the for loop of line 267 or 284 is over: the helper returns
Return ==
    /\ status = "running" /\ stack # <<>>
    /\ Top.element \in gateway_map_keys(gateways)
    /\ Top.next > Len(RefsOf(gateway_map(gateways, Top.element), Top.dir))
    /\ stack' = Pop
    /\ UNCHANGED <<asmVars, uniVars, closureVars, netVars, jacVars, ssdtVars, ctlVars, IC, OC, cursor, status>>

NextCyclic == LoopCall \/ LoopAdvance \/ LoopDone \/ AddLeaf \/ Recurse \/ Return

SpecCyclic == InitCyclic /\ [][NextCyclic]_vars

(***************************************************************************)
(* SpecNet: convert_bpmn_to_petri_net applied to a BPMN document           *)
(***************************************************************************)
InitNet ==
    /\ control_flow = <<>>
    /\ gateways = <<>>
    /\ F_prime = <<>>
    /\ F_second = <<>>
    /\ stage = "idle"
    /\ RecIdle
    /\ doc \in Documents(MaxTasks, MaxSeqFlows)
    /\ lane_petri_nets = <<>>
    /\ petri_net = EmptyNet
    /\ pnStage = "input"
    /\ JacIdle
    /\ SsdtIdle
    /\ CtlIdle
    /\ AsmIdle
    /\ UniIdle

Converted ==
    /\ lane_petri_nets' =
            LET info == parse_bpmn_collaboration(doc)
            IN  LaneNets(info.lanes, info.processes)
    /\ petri_net' = convert_collaboration_bpmn_to_petri_net(doc)
    /\ pnStage' = "converted"
    /\ UNCHANGED <<asmVars, uniVars, closureVars, recVars, jacVars, ssdtVars, ctlVars, doc>>

\* lines 415-431: a collaboration element was found
ConvertCollaboration ==
    /\ pnStage = "input"
    /\ ~ParseRaises(doc)
    /\ doc.collaboration
    /\ Converted

\* lines 433-451: no collaboration element, the same converter is called
ConvertSingleProcess ==
    /\ pnStage = "input"
    /\ ~ParseRaises(doc)
    /\ ~doc.collaboration
    /\ Converted

\* line 409: ET.parse raises ParseError, which nothing between it and the
\* caller catches; no net is built, returned or saved
ConvertMalformed ==
    /\ pnStage = "input"
    /\ ParseRaises(doc)
    /\ pnStage' = "ParseError"
    /\ UNCHANGED <<asmVars, uniVars, closureVars, recVars, jacVars, ssdtVars, ctlVars, doc, lane_petri_nets, petri_net>>

NextNet == ConvertCollaboration \/ ConvertSingleProcess \/ ConvertMalformed

SpecNet == InitNet /\ [][NextNet]_vars

(***************************************************************************)
(* benchmark/metrics/jaccard.py: calculate_jaccard_similarity              *)
(***************************************************************************)
MaxEdges == 3

\* a float that is the quotient of two naturals, kept as the pair
Ratio(n, d) == [num |-> n, den |-> d]

\* == between two such floats
SameValue(x, y) == x.num * y.den = y.num * x.den

\* variant: the case of two empty sets is not singled out
calculate_jaccard_no_empty_case(a, b) ==
    LET intersection == a \cap b
        union == a \cup b
    IN  IF union = {} THEN Ratio(0, 1)
        ELSE Ratio(Cardinality(intersection), Cardinality(union))

\* lines 153-173
calculate_jaccard_similarity(a, b) ==
    IF a = {} /\ b = {} THEN Ratio(1, 1)
    ELSE LET intersection == a \cap b
             union == a \cup b
         IN  IF union = {} THEN Ratio(0, 1)
             ELSE Ratio(Cardinality(intersection), Cardinality(union))

\* the keys f"{source_ref}->{target_ref}" of the extracted flows
FlowKeys == <<"A->B", "B->C", "A->C", "C->A">>

FlowKeySets(maxEdges) == SUBSET Range(Prefix(FlowKeys, maxEdges))

Calls == {"ab", "ba", "aa"}

(***************************************************************************)
(* SpecJaccard: calculate_jaccard_similarity called on (set1, set2), on    *)
(* (set2, set1) and on (set1, set1)                                        *)
(***************************************************************************)
InitJaccard ==
    /\ control_flow = <<>>
    /\ gateways = <<>>
    /\ F_prime = <<>>
    /\ F_second = <<>>
    /\ stage = "idle"
    /\ RecIdle
    /\ NetIdle
    /\ set1 \in FlowKeySets(MaxEdges)
    /\ set2 \in FlowKeySets(MaxEdges)
    /\ similarity = [c \in Calls |-> <<>>]
    /\ SsdtIdle
    /\ CtlIdle
    /\ AsmIdle
    /\ UniIdle

Returned(call, value) ==
    /\ similarity[call] = <<>>
    /\ similarity' = [similarity EXCEPT ![call] = <<value>>]
    /\ UNCHANGED <<asmVars, uniVars, closureVars, recVars, netVars, set1, set2, ssdtVars, ctlVars>>

CompareSets == Returned("ab", calculate_jaccard_similarity(set1, set2))

CompareSwapped == Returned("ba", calculate_jaccard_similarity(set2, set1))

CompareSelf == Returned("aa", calculate_jaccard_similarity(set1, set1))

NextJaccard == CompareSets \/ CompareSwapped \/ CompareSelf

SpecJaccard == InitJaccard /\ [][NextJaccard]_vars

(***************************************************************************)
(* benchmark/metrics/ssdt.py: the shortest-distance matrices and their     *)
(* comparison                                                              *)
(***************************************************************************)
MaxActivities == 2
MaxGraphFlows == 2

\* float('inf'): the distance of a node that is not reached; it is stored
\* and compared, never added to
Infinity == -1

\* variant: the collaboration element is not looked for
detect_always_process(x) == "process"

\* lines 30-49: a ParseError is caught and gives 'process'
detect_bpmn_type(x) ==
    IF ~x.wellformed THEN "process"
    ELSE IF x.collaboration THEN "collaboration"
    ELSE "process"

\* lines 62-85: the keys of the dictionary of activities
extract_activity_nodes(x) == IF x.wellformed THEN Range(x.activities) ELSE {}

\* lines 98-119: the keys of the dictionary of gateways
extract_gateways(x) ==
    IF x.wellformed THEN {x.gateways[i].id : i \in DOMAIN x.gateways} ELSE {}

\* lines 132-150
extract_sequence_flows(x) == IF x.wellformed THEN x.flows ELSE <<>>

\* lines 420-440
extract_bpmn_graph_data(x) ==
    [activities |-> extract_activity_nodes(x),
     gateways |-> extract_gateways(x),
     flows |-> extract_sequence_flows(x),
     bpmn_type |-> detect_bpmn_type(x)]

\* lines 165-178: the adjacency lists, in the order of the flows
build_graph_with_gateways(activities, gateway_ids, flows) ==
    LET all_nodes == activities \cup gateway_ids
    IN  [node \in all_nodes |->
            LET out == SelectSeq(flows, LAMBDA f : f[1] = node /\ f[2] \in all_nodes)
            IN  [k \in DOMAIN out |-> out[k][2]]]

\* the identifiers in the order sorted() gives them
NodeOrder == <<"A", "B", "C", "D", "G">>

\* lines 481-484: sorted(list(activities.keys()) + list(gateways.keys()))
SortedNodes(activities, gateway_ids) ==
    SeqOfIndices(NodeOrder,
                 {i \in DOMAIN NodeOrder : NodeOrder[i] \in activities \cup gateway_ids}, 1)

\* lines 265-280: the neighbours of the node taken from the queue
RECURSIVE VisitNeighbors(_, _, _, _)
VisitNeighbors(neighbors, current, nodes, bfs) ==
    IF neighbors = <<>> THEN bfs
    ELSE LET neighbor == Head(neighbors)
         IN  VisitNeighbors(Tail(neighbors), current, nodes,
                IF neighbor \in Range(nodes) /\ neighbor \notin bfs.visited
                THEN [distances |-> [bfs.distances EXCEPT
                                        ![neighbor] = bfs.distances[current] + 1],
                      visited |-> bfs.visited \cup {neighbor},
                      queue |-> Append(bfs.queue, neighbor)]
                ELSE bfs)

\* lines 262-280: while queue
RECURSIVE BfsLoop(_, _, _)
BfsLoop(graph, nodes, bfs) ==
    IF bfs.queue = <<>> THEN bfs.distances
    ELSE LET current == Head(bfs.queue)
             neighbors == IF current \in DOMAIN graph THEN graph[current] ELSE <<>>
         IN  BfsLoop(graph, nodes,
                     VisitNeighbors(neighbors, current, nodes,
                                    [bfs EXCEPT !.queue = Tail(@)]))

\* lines 238-289; the gateway branches of lines 268-276 are both `pass`
calculate_shortest_paths_with_gateways(graph, nodes) ==
    [source \in Range(nodes) |->
        BfsLoop(graph, nodes,
                [distances |-> [node \in Range(nodes) |->
                                    IF node = source THEN 0 ELSE Infinity],
                 visited |-> {source},
                 queue |-> <<source>>])]

\* variant: the row is the target and the column the source
build_ssdt_matrix_transposed(shortest_paths, nodes) ==
    [i \in 1..Len(nodes) |->
        [j \in 1..Len(nodes) |->
            IF i = j THEN 0 ELSE shortest_paths[nodes[j]][nodes[i]]]]

\* lines 357-382
build_ssdt_matrix(shortest_paths, nodes) ==
    [i \in 1..Len(nodes) |->
        [j \in 1..Len(nodes) |->
            IF i = j THEN 0 ELSE shortest_paths[nodes[i]][nodes[j]]]]

Rows(matrix) == Len(matrix)

\* len(matrix[0]) if matrix else 0
Cols(matrix) == IF Len(matrix) > 0 THEN Len(matrix[1]) ELSE 0

Max(a, b) == IF a > b THEN a ELSE b

Min(a, b) == IF a < b THEN a ELSE b

\* variant: the cells around the copy of the matrix keep the 0 of np.zeros
PaddedZeros(matrix, max_dim) ==
    [i \in 1..max_dim |->
        [j \in 1..max_dim |->
            IF i <= Rows(matrix) /\ j <= Cols(matrix) THEN matrix[i][j] ELSE 0]]

\* lines 313-352 for one of the two matrices: zeros, the copy of the matrix,
\* and around it 0 on the diagonal and infinity elsewhere
Padded(matrix, max_dim) ==
    [i \in 1..max_dim |->
        [j \in 1..max_dim |->
            IF i <= Rows(matrix) /\ j <= Cols(matrix) THEN matrix[i][j]
            ELSE IF Rows(matrix) < max_dim \/ Cols(matrix) < max_dim
                 THEN (IF i = j THEN 0 ELSE Infinity)
                 ELSE 0]]

\* lines 292-354
align_ssdt_matrices(matrix1, matrix2) ==
    LET max_dim == Max(Rows(matrix1), Rows(matrix2))
    IN  <<Padded(matrix1, max_dim), Padded(matrix2, max_dim)>>

\* lines 385-417
calculate_ssdt_similarity(matrix1, matrix2) ==
    IF Len(matrix1) = 0 \/ Len(matrix2) = 0 THEN Ratio(0, 1)
    ELSE LET n == Min(Rows(matrix1), Rows(matrix2))
             m == Min(Cols(matrix1), Cols(matrix2))
         IN  IF n = 0 \/ m = 0 THEN Ratio(0, 1)
             ELSE Ratio(Cardinality({c \in (1..n) \X (1..m) :
                                        matrix1[c[1]][c[2]] = matrix2[c[1]][c[2]]}),
                        n * m)

\* lines 474-495: the matrix of one model
SsdtOf(data) ==
    LET graph == build_graph_with_gateways(data.activities, data.gateways, data.flows)
        nodes == SortedNodes(data.activities, data.gateways)
    IN  build_ssdt_matrix(calculate_shortest_paths_with_gateways(graph, nodes), nodes)

\* lines 443-525, for two models that are not collaborations
calculate_bpmn_ssdt_similarity(benchmark, target) ==
    LET benchmark_data == extract_bpmn_graph_data(benchmark)
        target_data == extract_bpmn_graph_data(target)
        benchmark_ssdt == SsdtOf(benchmark_data)
        target_ssdt == SsdtOf(target_data)
        aligned == align_ssdt_matrices(benchmark_ssdt, target_ssdt)
    IN  [ssdt_similarity |-> calculate_ssdt_similarity(aligned[1], aligned[2]),
         benchmark_bpmn_type |-> benchmark_data.bpmn_type,
         target_bpmn_type |-> target_data.bpmn_type,
         benchmark_ssdt_matrix |-> benchmark_ssdt,
         target_ssdt_matrix |-> target_ssdt,
         aligned_benchmark_ssdt_matrix |-> aligned[1],
         aligned_target_ssdt_matrix |-> aligned[2],
         benchmark_nodes |-> SortedNodes(benchmark_data.activities, benchmark_data.gateways),
         target_nodes |-> SortedNodes(target_data.activities, target_data.gateways)]

(***************************************************************************)
(* Inputs of the SSDT comparator: BPMN documents                           *)
(***************************************************************************)
ActivityIds == <<"A", "B", "C", "D">>

\* sequence flows between activities, through the gateway G, and from the
\* start event S, which is no node of the graph
FlowPairs ==
    <<<<"A", "B">>, <<"B", "A">>, <<"A", "G">>, <<"G", "B">>, <<"S", "A">>>>

FlowLists(maxFlows) ==
    {SeqOfIndices(FlowPairs, idx, 1) :
        idx \in {f \in SUBSET (DOMAIN FlowPairs) : Cardinality(f) <= maxFlows}}

GatewayLists ==
    {<<>>, <<Node("G", "exclusiveGateway")>>, <<Node("G", "parallelGateway")>>}

BpmnXml(wf, collab, acts, gws, flows) ==
    [wellformed |-> wf, collaboration |-> collab, activities |-> acts,
     gateways |-> gws, flows |-> flows]

ProcessDiagrams(maxActivities, maxFlows) ==
    {BpmnXml(TRUE, FALSE, Prefix(ActivityIds, n), gws, flows) :
        n \in 0..maxActivities, gws \in GatewayLists, flows \in FlowLists(maxFlows)}

\* the same contents under a collaboration element, and in a text that is not
\* well-formed XML
CollaborationDiagrams ==
    {[x EXCEPT !.collaboration = TRUE] : x \in ProcessDiagrams(1, 0)}

MalformedXml ==
    {[x EXCEPT !.wellformed = FALSE, !.collaboration = c] :
        x \in ProcessDiagrams(1, 0), c \in BOOLEAN}

BpmnXmls(maxActivities, maxFlows) ==
    ProcessDiagrams(maxActivities, maxFlows) \cup CollaborationDiagrams \cup MalformedXml

(***************************************************************************)
(* SpecSsdt: compare_bpmn_models on two documents given as XML text        *)
(***************************************************************************)
InitSsdt ==
    /\ control_flow = <<>>
    /\ gateways = <<>>
    /\ F_prime = <<>>
    /\ F_second = <<>>
    /\ stage = "idle"
    /\ RecIdle
    /\ NetIdle
    /\ JacIdle
    /\ benchmark_bpmn_xml \in BpmnXmls(MaxActivities, MaxGraphFlows)
    /\ target_bpmn_xml \in {benchmark_bpmn_xml} \cup BpmnXmls(1, 1)
    /\ ssdt_result = <<>>
    /\ ssdt_saved = <<>>
    /\ ssdtStage = "input"
    /\ CtlIdle
    /\ AsmIdle
    /\ UniIdle

\* lines 462-463, 466-467: the ValueError leaves compare_bpmn_models at line
\* 607, before save_ssdt_result
RaiseValueError ==
    /\ ssdtStage' = "ValueError"
    /\ UNCHANGED <<asmVars, uniVars, closureVars, recVars, netVars, jacVars, ctlVars,
                   benchmark_bpmn_xml, target_bpmn_xml, ssdt_result, ssdt_saved>>

\* lines 461-463
RejectBenchmark ==
    /\ ssdtStage = "input"
    /\ detect_bpmn_type(benchmark_bpmn_xml) = "collaboration"
    /\ RaiseValueError

\* lines 465-467
RejectTarget ==
    /\ ssdtStage = "input"
    /\ detect_bpmn_type(benchmark_bpmn_xml) # "collaboration"
    /\ detect_bpmn_type(target_bpmn_xml) = "collaboration"
    /\ RaiseValueError

\* lines 606-613: the result is computed, saved and returned
CompareModels ==
    /\ ssdtStage = "input"
    /\ detect_bpmn_type(benchmark_bpmn_xml) # "collaboration"
    /\ detect_bpmn_type(target_bpmn_xml) # "collaboration"
    /\ ssdt_result' = <<calculate_bpmn_ssdt_similarity(benchmark_bpmn_xml, target_bpmn_xml)>>
    /\ ssdt_saved' = ssdt_result'
    /\ ssdtStage' = "returned"
    /\ UNCHANGED <<asmVars, uniVars, closureVars, recVars, netVars, jacVars, ctlVars,
                   benchmark_bpmn_xml, target_bpmn_xml>>

NextSsdt == RejectBenchmark \/ RejectTarget \/ CompareModels

SpecSsdt == InitSsdt /\ [][NextSsdt]_vars

(***************************************************************************)
(* verification/ctl.py: the substitution of task symbols by post-places.   *)
(* A string is the sequence of its characters.                             *)
(***************************************************************************)
MaxSymbols == 2
MaxPostPlaces == 2
MaxFormulas == 1

\* transition_prefix (line 416) and place_prefix (line 450)
T_PREFIX == <<"t", "_">>

P_PREFIX == <<"p", "_">>

StartsWith(str, prefix) ==
    Len(str) >= Len(prefix) /\ SubSeq(str, 1, Len(prefix)) = prefix

\* str.replace(old, new) for a non-empty old: the occurrences are taken from
\* the left and do not overlap
RECURSIVE Replace(_, _, _)
Replace(str, old, new) ==
    IF Len(str) < Len(old) THEN str
    ELSE IF SubSeq(str, 1, Len(old)) = old
         THEN new \o Replace(SubSeq(str, Len(old) + 1, Len(str)), old, new)
         ELSE <<Head(str)>> \o Replace(Tail(str), old, new)

\* sep.join(list)
RECURSIVE Join(_, _)
Join(list, sep) ==
    IF list = <<>> THEN <<>>
    ELSE IF Len(list) = 1 THEN list[1]
    ELSE list[1] \o sep \o Join(Tail(list), sep)

\* lines 317-380: a file that does not parse gives {}, whose 'transitions'
\* and 'arcs' are read as empty (lines 412, 445)
load_petri_net(file) ==
    IF file.wellformed
    THEN [transitions |-> file.transitions, arcs |-> file.arcs]
    ELSE [transitions |-> <<>>, arcs |-> <<>>]

\* lines 401-431: <<t>> for the transition found, <<>> for None; the name of
\* a transition is its id (line 359)
map_symbol_to_transition(symbol, data) ==
    IF (T_PREFIX \o symbol) \in Range(data.transitions) THEN <<T_PREFIX \o symbol>>
    ELSE IF symbol \in Range(data.transitions) THEN <<symbol>>
    ELSE <<>>

\* lines 434-461
get_post_places(transition_id, data) ==
    LET out == SelectSeq(data.arcs, LAMBDA arc :
                    arc.source = transition_id /\ StartsWith(arc.target, P_PREFIX))
    IN  [k \in DOMAIN out |-> out[k].target]

\* variant: the conjunction also for a single post-place
conjunction_always(P) == <<"(">> \o Join(P, <<" ", "A", "N", "D", " ">>) \o <<")">>

\* lines 294-299
substitution_expression(P) ==
    IF Len(P) = 1 THEN P[1]
    ELSE <<"(">> \o Join(P, <<" ", "A", "N", "D", " ">>) \o <<")">>

\* E[s_k] = e_k (line 302): a new key goes to the end, a known key keeps its
\* place
Put(E, s_k, e_k) ==
    IF \E i \in DOMAIN E : E[i].symbol = s_k
    THEN [i \in DOMAIN E |-> IF E[i].symbol = s_k THEN [E[i] EXCEPT !.expression = e_k]
                              ELSE E[i]]
    ELSE Append(E, [symbol |-> s_k, expression |-> e_k])

\* lines 282-302
RECURSIVE Substitutions(_, _, _)
Substitutions(E, symbols, data) ==
    IF symbols = <<>> THEN E
    ELSE LET s_k == Head(symbols)
             t_k == map_symbol_to_transition(s_k, data)
         IN  Substitutions(
                IF t_k = <<>> THEN E
                ELSE Put(E, s_k, substitution_expression(get_post_places(t_k[1], data))),
                Tail(symbols), data)

\* lines 249-304
transform_ctl_on_pt(file, symbols) == Substitutions(<<>>, symbols, load_petri_net(file))

\* lines 487-490: one replace per entry of E, in its order
RECURSIVE ReplaceAll(_, _)
ReplaceAll(formula, E) ==
    IF E = <<>> THEN formula
    ELSE ReplaceAll(Replace(formula, Head(E).symbol, Head(E).expression), Tail(E))

\* lines 481-501
transformed(constraints, E) == [k \in DOMAIN constraints |-> ReplaceAll(constraints[k], E)]

(***************************************************************************)
(* Inputs of the substitution: symbols, PNML files, formulas               *)
(***************************************************************************)
T1 == <<"T", "1">>

T10 == <<"T", "1", "0">>

T2 == <<"T", "2">>

\* the task symbols of the symbol table: up to maxSymbols of them, in any order
SymbolLists(maxSymbols) ==
    {syms \in SeqsUpTo({T1, T10, T2}, maxSymbols) :
        \A i, j \in DOMAIN syms : i # j => syms[i] # syms[j]}

PostPlace(id) == <<"p", "_", "p", "o", "s", "t", "_">> \o id

\* the post-place of a task and the places of the message flows it sends
PostPlaces == <<PostPlace(T2), <<"p", "_", "m", "s", "g", "_", "m", "1">>, <<"p", "_", "m", "s", "g", "_", "m", "2">>, <<"p", "_", "m", "s", "g", "_", "m", "3">>>>

\* a task as the translator writes it: its transition and the arc to its
\* post-place
TaskNet(id) ==
    [transitions |-> <<T_PREFIX \o id>>,
     arcs |-> <<Arc(<<"p", "_", "p", "r", "e", "_">> \o id, T_PREFIX \o id), Arc(T_PREFIX \o id, PostPlace(id))>>]

NoNet == [transitions |-> <<>>, arcs |-> <<>>]

\* task T2: absent, with n post-places, or as a transition named T2 itself
T2Nets(maxPostPlaces) ==
    {NoNet,
     [transitions |-> <<T2>>, arcs |-> <<Arc(T2, PostPlace(T2))>>]}
    \cup {[transitions |-> <<T_PREFIX \o T2>>,
           arcs |-> [k \in 1..n |-> Arc(T_PREFIX \o T2, PostPlaces[k])]] :
            n \in 1..maxPostPlaces}

Pnml(wf, a, b, c) ==
    [wellformed |-> wf,
     transitions |-> a.transitions \o b.transitions \o c.transitions,
     arcs |-> a.arcs \o b.arcs \o c.arcs]

PnmlFiles(maxPostPlaces) ==
    {Pnml(TRUE, a, b, c) :
        a \in {NoNet, TaskNet(T1)}, b \in {NoNet, TaskNet(T10)}, c \in T2Nets(maxPostPlaces)}
    \cup {Pnml(FALSE, a, NoNet, NoNet) : a \in {NoNet, TaskNet(T1)}}

Formulas ==
    {<<"A", "G", "(", "T", "1", ")">>,
     <<"A", "F", "(", "T", "1", "0", ")">>,
     <<"E", "F", "(", "T", "2", ")">>,
     <<"A", "G", "(", "T", "1", " ", "-", ">", " ", "A", "F", "(", "T", "2", ")", ")">>}

ConstraintLists(maxFormulas) == SeqsUpTo(Formulas, maxFormulas)

(***************************************************************************)
(* SpecCtl: apply_ctl_transformation on a list of formulas                 *)
(***************************************************************************)
InitCtl ==
    /\ control_flow = <<>>
    /\ gateways = <<>>
    /\ F_prime = <<>>
    /\ F_second = <<>>
    /\ stage = "idle"
    /\ RecIdle
    /\ NetIdle
    /\ JacIdle
    /\ SsdtIdle
    /\ petri_net_path \in PnmlFiles(MaxPostPlaces)
    /\ bpmn_symbols \in SymbolLists(MaxSymbols)
    /\ ctl_constraints \in ConstraintLists(MaxFormulas)
    /\ substitutions = <<>>
    /\ transformed_constraints = <<>>
    /\ ctlStage = "input"
    /\ AsmIdle
    /\ UniIdle

\* lines 464-501
Apply ==
    /\ substitutions' = transform_ctl_on_pt(petri_net_path, bpmn_symbols)
    /\ transformed_constraints' = transformed(ctl_constraints, substitutions')
    /\ ctlStage' = "returned"
    /\ UNCHANGED <<asmVars, uniVars, closureVars, recVars, netVars, jacVars, ssdtVars,
                   petri_net_path, bpmn_symbols, ctl_constraints>>

\* the PNML file parses
ApplyTransformation ==
    /\ ctlStage = "input"
    /\ petri_net_path.wellformed
    /\ Apply

\* lines 378-380: the ParseError is caught in load_petri_net, which prints it
\* and returns {}; the call goes on with no transition and no arc
ApplyOnUnparsedPnml ==
    /\ ctlStage = "input"
    /\ ~petri_net_path.wellformed
    /\ Apply

NextCtl == ApplyTransformation \/ ApplyOnUnparsedPnml

SpecCtl == InitCtl /\ [][NextCtl]_vars

(***************************************************************************)
(* benchmark/unification.py: apply_symbol_mappings_to_bpmn                 *)
(***************************************************************************)
MaxMappings == 2

Mapping(bench, target) == [bench_symbol |-> bench, target_symbol |-> target]

\* lines 250-253: {mapping['target_symbol']: mapping['bench_symbol'] for
\* mapping in mappings}; a later mapping of the same target symbol wins
RECURSIVE MappingDict(_)
MappingDict(mappings) ==
    IF mappings = <<>> THEN <<>>
    ELSE LET last == mappings[Len(mappings)]
         IN  (last.target_symbol :> last.bench_symbol)
                @@ MappingDict(SubSeq(mappings, 1, Len(mappings) - 1))

\* if id in map: element.set(..., map[id])
Renamed(map, id) == IF id \in DOMAIN map THEN map[id] ELSE id

\* lines 267-270
TASK_TYPES ==
    {"task", "userTask", "serviceTask", "scriptTask", "businessRuleTask",
     "manualTask", "sendTask", "receiveTask", "subProcess"}

\* lines 272-276 and 289-293: the elements found by tag name: the task types
\* and the tag bpmn:gateway
RenamedNode(task_map, node) ==
    IF node.type \in TASK_TYPES \/ node.type = "gateway"
    THEN [node EXCEPT !.id = Renamed(task_map, node.id)]
    ELSE node

\* lines 279-286
RenamedFlow(task_map, flow) ==
    [sourceRef |-> Renamed(task_map, flow.sourceRef),
     targetRef |-> Renamed(task_map, flow.targetRef)]

\* lines 233-299; a document that is not well-formed XML raises ParseError in
\* line 246 and is returned as it is (297-299)
apply_symbol_mappings_to_bpmn(xml, actors, tasks) ==
    IF ~xml.wellformed THEN xml
    ELSE LET actor_map == MappingDict(actors)
             task_map == MappingDict(tasks)
         IN  [wellformed |-> TRUE,
              lanes |-> [i \in DOMAIN xml.lanes |-> Renamed(actor_map, xml.lanes[i])],
              participants |->
                [i \in DOMAIN xml.participants |-> Renamed(actor_map, xml.participants[i])],
              nodes |-> [i \in DOMAIN xml.nodes |-> RenamedNode(task_map, xml.nodes[i])],
              sequence_flows |->
                [i \in DOMAIN xml.sequence_flows |->
                    RenamedFlow(task_map, xml.sequence_flows[i])],
              message_flows |-> xml.message_flows]

(***************************************************************************)
(* Inputs of the unification: target documents and mapping lists           *)
(***************************************************************************)
FlowRef(s, t) == [sourceRef |-> s, targetRef |-> t]

\* start event, task, exclusive gateway and user task of the target model
TargetNodes ==
    <<Node("S1", "startEvent"), Node("T1", "task"),
      Node("G1", "exclusiveGateway"), Node("T2", "userTask")>>

TargetSequenceFlows == <<FlowRef("S1", "T1"), FlowRef("T1", "G1"), FlowRef("G1", "T2")>>

\* a message between the two tasks, and one from a task to the participant
TargetMessageFlows == <<FlowRef("T1", "T2"), FlowRef("T2", "A1")>>

Sublists(universe) == {SeqOfIndices(universe, idx, 1) : idx \in SUBSET DOMAIN universe}

TargetDocuments ==
    {[wellformed |-> wf, lanes |-> <<"A2">>, participants |-> <<"A1">>,
      nodes |-> TargetNodes, sequence_flows |-> sf, message_flows |-> mf] :
        wf \in BOOLEAN, sf \in Sublists(TargetSequenceFlows),
        mf \in Sublists(TargetMessageFlows)}

ActorMappingLists == {<<>>, <<Mapping("R1", "A1")>>, <<Mapping("R2", "A2")>>}

TaskMappingLists(maxMappings) ==
    SeqsUpTo({Mapping(b, t) : b \in {"B1", "B2"}, t \in {"T1", "T2"}}, maxMappings)

(***************************************************************************)
(* SpecUnify: apply_symbol_mappings_to_bpmn on a target document           *)
(***************************************************************************)
InitUnify ==
    /\ control_flow = <<>>
    /\ gateways = <<>>
    /\ F_prime = <<>>
    /\ F_second = <<>>
    /\ stage = "idle"
    /\ RecIdle
    /\ NetIdle
    /\ JacIdle
    /\ SsdtIdle
    /\ CtlIdle
    /\ AsmIdle
    /\ bpmn_xml_content \in TargetDocuments
    /\ actor_mappings \in ActorMappingLists
    /\ task_mappings \in TaskMappingLists(MaxMappings)
    /\ unified_bpmn = <<>>
    /\ unifyStage = "input"

ApplyReturns ==
    /\ unifyStage = "input"
    /\ unified_bpmn' =
        <<apply_symbol_mappings_to_bpmn(bpmn_xml_content, actor_mappings, task_mappings)>>
    /\ unifyStage' = "returned"
    /\ UNCHANGED <<closureVars, recVars, netVars, jacVars, ssdtVars, ctlVars, asmVars,
                   bpmn_xml_content, actor_mappings, task_mappings>>

\* lines 245-295
ApplyMappings ==
    /\ bpmn_xml_content.wellformed
    /\ ApplyReturns

\* lines 297-299
ApplyToUnparsed ==
    /\ ~bpmn_xml_content.wellformed
    /\ ApplyReturns

NextUnify == ApplyMappings \/ ApplyToUnparsed

SpecUnify == InitUnify /\ [][NextUnify]_vars

(***************************************************************************)
(* Properties of the closure reducer                                       *)
(***************************************************************************)
\* the closure of one gateway alone: IC(g) and OC(g) of the design
GatewayIC(G, gw) == add_inputs(G, gw.from_tasks, {})

GatewayOC(G, gw) == add_outputs(G, gw.to_tasks, {})

\* the flows the first call took out of F
Removed(flow) == flow \notin Range(F_prime)

\* C1: reducing an already reduced flow list with the same gateways returns
\* it unchanged: reduce(reduce(F, G), G) = reduce(F, G)
C1_Idempotent == stage = "again" => F_second = F_prime

\* a nested pair of gateways, a flow removed and flows synthesized by the first call
C1_Witness ==
    /\ stage = "again"
    /\ Len(gateways) = 2
    /\ "g2" \in Range(gateways[1].from_tasks)
    /\ \E i \in DOMAIN control_flow : Removed(control_flow[i])
    /\ Len(F_prime) > Len(control_flow)
    /\ F_second = F_prime

\* C2: a flow (u, v) of F is removed exactly when one gateway g has u in
\* its own input closure and v in its own output closure
C2_RemovedPerGateway ==
    stage = "reduced" =>
        \A i \in DOMAIN control_flow :
            Removed(control_flow[i]) <=>
                \E k \in DOMAIN gateways :
                    /\ control_flow[i].from \in GatewayIC(gateways, gateways[k])
                    /\ control_flow[i].to \in GatewayOC(gateways, gateways[k])

\* the references of gateway symbol s in direction d that are gateways themselves
NestedRefs(G, s, d) == Range(RefsOf(gateway_map(G, s), d)) \cap gateway_map_keys(G)

RECURSIVE ReachableIn(_, _, _, _)
ReachableIn(G, d, from, n) ==
    IF n = 0 THEN from
    ELSE ReachableIn(G, d, from \cup UNION {NestedRefs(G, s, d) : s \in from}, n - 1)

\* a gateway reachable from itself through from_tasks or through to_tasks
Cyclic(G) ==
    \E d \in {"in", "out"} : \E s \in gateway_map_keys(G) :
        s \in ReachableIn(G, d, NestedRefs(G, s, d), Len(G))

\* C3: with cyclic gateway references the closure computation is guarded:
\* no gateway is entered while it is already being expanded, and the
\* computation does not end in the interpreter's stack overflow
C3_CycleGuarded ==
    Cyclic(gateways) =>
        /\ status # "RecursionError"
        /\ \A i, j \in DOMAIN stack :
                (i < j /\ stack[i].element \in gateway_map_keys(gateways))
                    => stack[i].element # stack[j].element

\* C4: after the call every gateway is connected to each of its inputs and
\* outputs; the flows appended after the kept ones are all marked GATEWAY
\* and none of them repeats the source and target of an earlier flow
C4_GatewayFlows ==
    stage = "reduced" =>
        LET kept == Len(AfterRemoval(control_flow, gateways))
        IN  /\ \A k \in DOMAIN gateways :
                    /\ \A i \in Range(gateways[k].from_tasks) :
                            \E n \in DOMAIN F_prime :
                                /\ F_prime[n].from = i
                                /\ F_prime[n].to = gateways[k].gateway_symbol
                    /\ \A o \in Range(gateways[k].to_tasks) :
                            \E n \in DOMAIN F_prime :
                                /\ F_prime[n].from = gateways[k].gateway_symbol
                                /\ F_prime[n].to = o
            /\ kept <= Len(F_prime)
            /\ \A n \in DOMAIN F_prime :
                    n > kept =>
                        /\ F_prime[n].actor = "GATEWAY"
                        /\ \A m \in 1..(n - 1) :
                                ~(F_prime[m].from = F_prime[n].from
                                    /\ F_prime[m].to = F_prime[n].to)
                        /\ \E k \in DOMAIN gateways :
                                \/ /\ F_prime[n].to = gateways[k].gateway_symbol
                                   /\ F_prime[n].from \in Range(gateways[k].from_tasks)
                                \/ /\ F_prime[n].from = gateways[k].gateway_symbol
                                   /\ F_prime[n].to \in Range(gateways[k].to_tasks)

\* one gateway flow was already in F and is not added again, another is synthesized
C4_Witness ==
    /\ stage = "reduced"
    /\ gateways # <<>>
    /\ \E n \in DOMAIN F_prime :
            /\ F_prime[n].to = "g1" /\ F_prime[n].actor # "GATEWAY"
            /\ F_prime[n].from \in Range(gateways[1].from_tasks)
    /\ \E n \in DOMAIN F_prime : F_prime[n].actor = "GATEWAY"

(***************************************************************************)
(* Properties of the Petri-net translator                                  *)
(***************************************************************************)
Places == Range(petri_net.places)

Transitions == Range(petri_net.transitions)

Arcs == Range(petri_net.arcs)

\* the process translated for the i-th lane net
LaneProcess(i) ==
    LET lane == doc.participants[
                    CHOOSE k \in DOMAIN doc.participants :
                        doc.participants[k].id = lane_petri_nets[i].lane_id]
    IN  ProcessOf(doc.processes, lane.process_ref)

\* C5: a lane with T tasks and Gw gateways of any type has 2 + 2T + 2Gw
\* places and T + Gw transitions
C5_Conservation ==
    pnStage = "converted" =>
        \A i \in DOMAIN lane_petri_nets :
            LET net == lane_petri_nets[i].net
                T == Len(LaneProcess(i).tasks)
                Gw == Len(LaneProcess(i).gateways)
            IN  /\ Len(net.places) = 2 + 2 * T + 2 * Gw
                /\ Len(net.transitions) = T + Gw

\* C6: a diagram without collaboration element is translated as one lane:
\* one marked start place, one end place, and the nodes of its tasks
C6_SingleProcessOneLane ==
    (pnStage = "converted" /\ ~doc.collaboration /\ Len(doc.processes) = 1) =>
        /\ Len(lane_petri_nets) = 1
        /\ Cardinality(DOMAIN petri_net.initial_marking) = 1
        /\ Len(petri_net.places) >= 2
        /\ \A k \in DOMAIN doc.processes[1].tasks :
                LET id == doc.processes[1].tasks[k].id
                IN  /\ ("p_pre_" \o id) \in Places
                    /\ ("p_post_" \o id) \in Places
                    /\ ("t_" \o id) \in Transitions

\* the process S1 -> T1 -> E1
ScenarioProcess ==
    Process("P1", TaskNodes(<<"T1">>), <<>>, "S1", "E1",
            <<SeqFlow("S1", "T1"), SeqFlow("T1", "E1")>>)

\* the scenario as the only lane of a collaboration, without message flows
ScenarioLane ==
    /\ doc.collaboration
    /\ doc.processes = <<ScenarioProcess>>
    /\ doc.participants = <<[id |-> "Part1", name |-> "Buyer", process_ref |-> "P1"]>>
    /\ doc.message_flows = <<>>

\* the scenario as a diagram without collaboration element
ScenarioPlain == ~doc.collaboration /\ doc.processes = <<ScenarioProcess>>

C8_Bipartite ==
    pnStage = "converted" =>
        \A a \in Arcs :
            \/ a.source \in Places /\ a.target \in Transitions
            \/ a.source \in Transitions /\ a.target \in Places

\* C9: the merged marking holds one token on the start place of each
\* translated lane and nothing else, L tokens for L lanes
C9_OneTokenPerLane ==
    pnStage = "converted" =>
        LET m == petri_net.initial_marking
        IN  /\ DOMAIN m = {lane_petri_nets[i].net.places[1] : i \in DOMAIN lane_petri_nets}
            /\ \A p \in DOMAIN m : m[p] = 1
            /\ Cardinality(DOMAIN m) = Len(lane_petri_nets)

\* C10: every gateway of a translated lane, of whatever type, has its
\* pre-place, post-place and transition, joined pre -> transition -> post
C10_GatewayPattern ==
    pnStage = "converted" =>
        \A i \in DOMAIN lane_petri_nets :
            \A k \in DOMAIN LaneProcess(i).gateways :
                LET id == LaneProcess(i).gateways[k].id
                    net == lane_petri_nets[i].net
                IN  /\ ("p_pre_" \o id) \in Range(net.places)
                    /\ ("p_post_" \o id) \in Range(net.places)
                    /\ ("t_" \o id) \in Range(net.transitions)
                    /\ Arc("p_pre_" \o id, "t_" \o id) \in Range(net.arcs)
                    /\ Arc("t_" \o id, "p_post_" \o id) \in Range(net.arcs)

IsStartEvent(p, u) == \E k \in DOMAIN p.start_events : p.start_events[k].id = u

IsEndEvent(p, v) == \E k \in DOMAIN p.end_events : p.end_events[k].id = v

\* C11: for every sequence-flow edge (u, v) of a translated lane the lane net
\* holds the arc src -> tgt, src being the lane start place if u is a start
\* event and the post-place of u otherwise, tgt being the lane end place if v
\* is an end event and the pre-place of v otherwise; one arc per edge
C11_SequenceFlowArcs ==
    pnStage = "converted" =>
        \A i \in DOMAIN lane_petri_nets :
            LET net == lane_petri_nets[i].net
                p == LaneProcess(i)
                lane_start == net.places[1]
                lane_end == net.places[2]
            IN  /\ \A k \in DOMAIN p.sequence_flows :
                    LET u == p.sequence_flows[k].source
                        v == p.sequence_flows[k].target
                        src == IF IsStartEvent(p, u) THEN lane_start ELSE "p_post_" \o u
                        tgt == IF IsEndEvent(p, v) THEN lane_end ELSE "p_pre_" \o v
                    IN  Arc(src, tgt) \in Range(net.arcs)
                /\ Len(net.arcs) = 2 * Len(net.transitions) + Len(p.sequence_flows)

\* the number of places of the merged net named id
PlaceCount(id) == Cardinality({k \in DOMAIN petri_net.places : petri_net.places[k] = id})

\* C12: for each message flow m from s to t the merged net has exactly one
\* message place keyed by m, the arc transition(s) -> place(m) if and only if
\* a transition for s exists, and the arc place(m) -> transition(t) if and
\* only if a transition for t exists; a missing transition is no error
C12_MessageFlowWiring ==
    (pnStage # "input" /\ doc.wellformed /\ doc.collaboration) =>
        /\ pnStage = "converted"
        /\ \A k \in DOMAIN doc.message_flows :
                LET m == doc.message_flows[k]
                    place == "p_msg_" \o m.id
                IN  /\ PlaceCount(place) = 1
                    /\ Arc("t_" \o m.source, place) \in Arcs <=> ("t_" \o m.source) \in Transitions
                    /\ Arc(place, "t_" \o m.target) \in Arcs <=> ("t_" \o m.target) \in Transitions

\* a message flow whose source has a transition and whose target has none:
\* the place and the arc into it are there, no arc leaves it
C12_Witness ==
    /\ pnStage = "converted"
    /\ \E k \in DOMAIN doc.message_flows :
            LET m == doc.message_flows[k]
            IN  /\ ("t_" \o m.source) \in Transitions
                /\ ("t_" \o m.target) \notin Transitions
                /\ Arc("t_" \o m.source, "p_msg_" \o m.id) \in Arcs
                /\ \A a \in Arcs : a.source # "p_msg_" \o m.id

\* C13: on an input that is not well-formed XML the translator returns the
\* empty net: no places, transitions, arcs or marking
C13_MalformedGivesEmptyNet ==
    (pnStage # "input" /\ ~doc.wellformed) =>
        /\ pnStage = "converted"
        /\ petri_net = EmptyNet

(***************************************************************************)
(* Properties of the similarity engine                                     *)
(***************************************************************************)
\* C14: calculate_jaccard_similarity(A, B) is |A \cap B| / |A \cup B| unless
\* both sets are empty, and 1.0 when both are; hence it is 1.0 on (A, A) and
\* has the same value on (A, B) and on (B, A)
C14_Jaccard ==
    /\ \A r \in Range(similarity["ab"]) :
            IF set1 = {} /\ set2 = {}
            THEN r.den # 0 /\ r.num = r.den
            ELSE /\ r.den # 0
                 /\ r.num * Cardinality(set1 \cup set2) = Cardinality(set1 \cap set2) * r.den
    /\ \A r \in Range(similarity["aa"]) : r.den # 0 /\ r.num = r.den
    /\ \A r \in Range(similarity["ab"]) :
            \A q \in Range(similarity["ba"]) : r.num * q.den = q.num * r.den

\* two different sets that share a flow, compared in both orders
C14_Witness ==
    /\ similarity["ab"] # <<>>
    /\ similarity["ba"] # <<>>
    /\ set1 \cap set2 # {}
    /\ set1 # set2

\* C15: a process (non-collaboration) diagram compared with itself has the
\* SSDT similarity 1.0
C15_SelfSimilarity ==
    (ssdtStage = "returned" /\ target_bpmn_xml = benchmark_bpmn_xml) =>
        \A r \in Range(ssdt_result) :
            /\ r.ssdt_similarity.den # 0
            /\ r.ssdt_similarity.num = r.ssdt_similarity.den

IsCollaborationDiagram(x) == x.wellformed /\ x.collaboration

\* C16: if either model is a collaboration diagram the comparator raises the
\* validation error, returns no result and saves none
C16_CollaborationRejected ==
    (ssdtStage # "input" /\ (IsCollaborationDiagram(benchmark_bpmn_xml)
                                \/ IsCollaborationDiagram(target_bpmn_xml))) =>
        /\ ssdtStage = "ValueError"
        /\ ssdt_result = <<>>
        /\ ssdt_saved = <<>>

\* a process diagram compared with a collaboration diagram
C16_Witness ==
    /\ ssdtStage = "ValueError"
    /\ ~IsCollaborationDiagram(benchmark_bpmn_xml)
    /\ IsCollaborationDiagram(target_bpmn_xml)
    /\ Len(benchmark_bpmn_xml.activities) > 0

(***************************************************************************)
(* Properties of the substitution of symbols                               *)
(***************************************************************************)
\* the transitions of the PNML file that stand for a symbol: t_<symbol>, or
\* the symbol itself
TransitionsFor(symbol) ==
    {t \in Range(petri_net_path.transitions) : t = <<"t", "_">> \o symbol \/ t = symbol}

\* the targets of the arcs of the PNML file that leave a transition
PostSet(t) ==
    LET out == SelectSeq(petri_net_path.arcs, LAMBDA arc : arc.source = t)
    IN  [k \in DOMAIN out |-> out[k].target]

\* C17: the expression of a symbol whose transition has exactly one
\* post-place p is p, so that with symbol T1 and post-place p_post_T1 the
\* formula AG(T1) becomes AG(p_post_T1); with two or more post-places it is
\* the parenthesized conjunction (p1 AND p2 AND ... AND pn)
C17_SubstitutionExpression ==
    (ctlStage = "returned" /\ petri_net_path.wellformed) =>
        /\ \A i \in DOMAIN substitutions :
              \A t \in TransitionsFor(substitutions[i].symbol) :
                LET P == PostSet(t)
                    e == substitutions[i].expression
                IN  /\ Len(P) = 1 => e = P[1]
                    /\ Len(P) >= 2 => e = <<"(">> \o Join(P, <<" ", "A", "N", "D", " ">>) \o <<")">>
        /\ \A k \in DOMAIN ctl_constraints :
              (/\ ctl_constraints[k] = <<"A", "G", "(", "T", "1", ")">>
               /\ T1 \in Range(bpmn_symbols)
               /\ PostSet(<<"t", "_", "T", "1">>) = <<<<"p", "_", "p", "o", "s", "t", "_", "T", "1">>>>)
              => transformed_constraints[k] = <<"A", "G", "(", "p", "_", "p", "o", "s", "t", "_", "T", "1", ")">>

\* AG(T1) rewritten through the single post-place of T1, next to a symbol
\* with two post-places
C17_Witness ==
    /\ ctlStage = "returned"
    /\ petri_net_path.wellformed
    /\ ctl_constraints = <<<<"A", "G", "(", "T", "1", ")">>>>
    /\ transformed_constraints = <<<<"A", "G", "(", "p", "_", "p", "o", "s", "t", "_", "T", "1", ")">>>>
    /\ \E i \in DOMAIN substitutions :
            /\ substitutions[i].symbol = T2
            /\ substitutions[i].expression = <<"(", "p", "_", "p", "o", "s", "t", "_", "T", "2", " ", "A", "N", "D", " ", "p", "_", "m", "s", "g", "_", "m", "1", ")">>

\* the characters of an identifier
IdentChars ==
    {"A", "D", "E", "F", "G", "N", "T", "e", "g", "m", "o", "p", "r", "s", "t", "_",
     "0", "1", "2", "3", "4", "5", "6", "7", "8", "9"}

\* the identifiers of a formula: its maximal runs of identifier characters
RECURSIVE Identifiers(_, _)
Identifiers(str, run) ==
    IF str = <<>> THEN (IF run = <<>> THEN {} ELSE {run})
    ELSE IF Head(str) \in IdentChars THEN Identifiers(Tail(str), Append(run, Head(str)))
    ELSE (IF run = <<>> THEN {} ELSE {run}) \cup Identifiers(Tail(str), <<>>)

StrictPrefix(a, b) == Len(a) < Len(b) /\ SubSeq(b, 1, Len(a)) = a

\* an identifier that is a substituted symbol gives its expression, any
\* other identifier stays
Rewritten(ident, E) ==
    IF \E i \in DOMAIN E : E[i].symbol = ident
    THEN E[CHOOSE i \in DOMAIN E : E[i].symbol = ident].expression
    ELSE ident

\* the formula with each whole identifier rewritten
RECURSIVE WholeIdentifierReplace(_, _, _)
WholeIdentifierReplace(str, run, E) ==
    IF str = <<>> THEN Rewritten(run, E)
    ELSE IF Head(str) \in IdentChars
         THEN WholeIdentifierReplace(Tail(str), Append(run, Head(str)), E)
         ELSE Rewritten(run, E) \o <<Head(str)>> \o WholeIdentifierReplace(Tail(str), <<>>, E)

\* C18: a symbol is replaced only where it is a whole identifier: in a
\* formula with an identifier of which a substituted symbol is a strict
\* prefix (T1 in T10) the longer identifier is not touched by the
\* substitution of the shorter one
C18_WholeIdentifiers ==
    ctlStage = "returned" =>
        \A k \in DOMAIN ctl_constraints :
            (\E X \in Identifiers(ctl_constraints[k], <<>>) :
                \E i \in DOMAIN substitutions : StrictPrefix(substitutions[i].symbol, X))
            => transformed_constraints[k]
                    = WholeIdentifierReplace(ctl_constraints[k], <<>>, substitutions)

\* C19: a task symbol without transition in the Petri net is reported to the
\* caller as an error; the formulas are not returned as if they had been
\* rewritten
C19_LookupMissSurfaced ==
    (/\ ctlStage # "input"
     /\ petri_net_path.wellformed
     /\ \E i \in DOMAIN bpmn_symbols : TransitionsFor(bpmn_symbols[i]) = {})
    => ctlStage # "returned"

\* C20: a PNML file that cannot be parsed is a hard failure:
\* apply_ctl_transformation returns no list of formulas
C20_MalformedPnmlFails ==
    (ctlStage # "input" /\ ~petri_net_path.wellformed) =>
        /\ ctlStage # "returned"
        /\ transformed_constraints = <<>>

(***************************************************************************)
(* Properties of the substitution of several symbols                       *)
(***************************************************************************)
\* the entries of E whose symbol starts the string
Matching(str, E) == {i \in DOMAIN E : StartsWith(str, E[i].symbol)}

\* all symbols substituted at once: the formula is read once from the left,
\* a symbol found in it gives its expression, and the inserted text is not
\* read again
RECURSIVE Simultaneous(_, _)
Simultaneous(str, E) ==
    IF str = <<>> THEN <<>>
    ELSE IF Matching(str, E) # {}
         THEN LET i == CHOOSE m \in Matching(str, E) : \A n \in Matching(str, E) : m <= n
              IN  E[i].expression
                    \o Simultaneous(SubSeq(str, Len(E[i].symbol) + 1, Len(str)), E)
         ELSE <<Head(str)>> \o Simultaneous(Tail(str), E)

\* C26: the text inserted as the expression of one symbol is never modified
\* by the substitution of another symbol: each formula returned is the
\* simultaneous substitution of all symbols and does not depend on the
\* order in which the symbols are processed
C26_SimultaneousSubstitution ==
    ctlStage = "returned" =>
        \A k \in DOMAIN ctl_constraints :
            /\ transformed_constraints[k] = Simultaneous(ctl_constraints[k], substitutions)
            /\ \A p \in Permutations(DOMAIN substitutions) :
                    ReplaceAll(ctl_constraints[k],
                               [i \in DOMAIN substitutions |-> substitutions[p[i]]])
                        = transformed_constraints[k]

C27_NoGatewaysKeepsFlows ==
    (gateways = <<>> /\ control_flow # <<>>) =>
        /\ stage = "generated" =>
            /\ updated_flow_result # <<>>
            /\ \A r \in Range(updated_flow_result) : r.updated_control_flow = control_flow
        /\ stage = "assembled" =>
            \A d \in Range(bpmn_data) : d.control_flow = control_flow

(***************************************************************************)
(* Properties of the unification                                           *)
(***************************************************************************)
\* the references of flows that were old are new in unified
RefsFollow(flows, unified, old, new) ==
    \A j \in DOMAIN flows :
        /\ flows[j].sourceRef = old => unified[j].sourceRef = new
        /\ flows[j].targetRef = old => unified[j].targetRef = new

\* C30: apply_symbol_mappings_to_bpmn preserves referential integrity: after
\* a task id is renamed, every sourceRef and targetRef of a sequenceFlow and
\* of a messageFlow that referred to the old id refers to the new one
C30_ReferencesFollowRenaming ==
    (unifyStage = "returned" /\ bpmn_xml_content.wellformed) =>
        \A u \in Range(unified_bpmn) :
            \A k \in DOMAIN bpmn_xml_content.nodes :
                LET old == bpmn_xml_content.nodes[k].id
                    new == u.nodes[k].id
                IN  old # new =>
                        /\ RefsFollow(bpmn_xml_content.sequence_flows,
                                      u.sequence_flows, old, new)
                        /\ RefsFollow(bpmn_xml_content.message_flows,
                                      u.message_flows, old, new)

(***************************************************************************)
(* Properties of the merged net                                            *)
(***************************************************************************)
\* C24: the places and the transitions of the merged net are sets: no
\* identifier occurs more than once among the places or among the
\* transitions, whatever the lanes and message flows
C24_NodesAreSets ==
    pnStage = "converted" =>
        /\ Cardinality(Places) = Len(petri_net.places)
        /\ Cardinality(Transitions) = Len(petri_net.transitions)

\* C28: every arc of the net refers only to declared nodes: its source and
\* its target are each a place or a transition of the net, also when a
\* sequence flow or a message flow refers to a node that is not known
C28_ArcsReferToNodes ==
    pnStage = "converted" =>
        \A a \in Arcs :
            /\ a.source \in Places \cup Transitions
            /\ a.target \in Places \cup Transitions

\* a lane with a sequence flow to a node that has no place, next to arcs
\* that were added
C28_Witness ==
    /\ pnStage = "converted"
    /\ Arcs # {}
    /\ \E i \in DOMAIN lane_petri_nets :
        \E k \in DOMAIN LaneProcess(i).sequence_flows :
            LET target == LaneProcess(i).sequence_flows[k].target
            IN  /\ ("p_pre_" \o target) \notin Places
                /\ \A e \in DOMAIN LaneProcess(i).end_events :
                        LaneProcess(i).end_events[e].id # target

(***************************************************************************)
(* Properties of the distance matrices                                     *)
(***************************************************************************)
\* the nodes of the graph of a diagram: its activities and its gateways
GraphNodes(x) == Range(x.activities) \cup {x.gateways[i].id : i \in DOMAIN x.gateways}

\* the nodes reached from u by a directed path of at most k sequence flows
RECURSIVE Within(_, _, _)
Within(x, u, k) ==
    IF k = 0 THEN {u}
    ELSE LET near == Within(x, u, k - 1)
         IN  near \cup {f[2] : f \in {g \in Range(x.flows) :
                                        g[1] \in near /\ g[2] \in GraphNodes(x)}}

\* the number of sequence flows of a shortest directed path from u to v
Hops(x, u, v) ==
    LET n == Cardinality(GraphNodes(x))
    IN  IF v \notin Within(x, u, n) THEN Infinity
        ELSE CHOOSE k \in 0..n :
                v \in Within(x, u, k) /\ \A j \in 0..(k - 1) : v \notin Within(x, u, j)

Rank(node) == CHOOSE i \in DOMAIN NodeOrder : NodeOrder[i] = node

\* nodes lists every node of x once, in lexicographic order, and matrix holds
\* at (i, j) the length of a shortest path from nodes[i] to nodes[j]
IsDistanceMatrix(x, nodes, matrix) ==
    /\ Range(nodes) = GraphNodes(x)
    /\ \A i, j \in DOMAIN nodes : i < j => Rank(nodes[i]) < Rank(nodes[j])
    /\ DOMAIN matrix = DOMAIN nodes
    /\ \A i \in DOMAIN nodes :
        /\ DOMAIN matrix[i] = DOMAIN nodes
        /\ matrix[i][i] = 0
        /\ \A j \in DOMAIN nodes : matrix[i][j] = Hops(x, nodes[i], nodes[j])

\* C21: the entry of the SSDT matrix for (u, v), at the positions of u and v
\* in the lexicographically sorted node list, is the number of edges of a
\* shortest directed sequence-flow path from u to v, every edge counting 1,
\* infinity when there is no path and 0 on the diagonal
C21_ShortestPathMatrix ==
    ssdtStage = "returned" =>
        \A r \in Range(ssdt_result) :
            /\ benchmark_bpmn_xml.wellformed =>
                IsDistanceMatrix(benchmark_bpmn_xml, r.benchmark_nodes,
                                 r.benchmark_ssdt_matrix)
            /\ target_bpmn_xml.wellformed =>
                IsDistanceMatrix(target_bpmn_xml, r.target_nodes, r.target_ssdt_matrix)

\* a path of two flows through the gateway, and a pair without a path
C21_Witness ==
    /\ ssdtStage = "returned"
    /\ benchmark_bpmn_xml.wellformed
    /\ \E r \in Range(ssdt_result) :
        LET matrix == r.benchmark_ssdt_matrix
        IN  /\ \E i, j \in DOMAIN matrix : matrix[i][j] = 2
            /\ \E i, j \in DOMAIN matrix : matrix[i][j] = Infinity

\* matrix padded to the square of side max_dim: the cells of the matrix are
\* kept, the added ones are 0 on the diagonal and infinity elsewhere
IsAligned(aligned, matrix, max_dim) ==
    /\ DOMAIN aligned = 1..max_dim
    /\ \A i \in 1..max_dim :
        /\ DOMAIN aligned[i] = 1..max_dim
        /\ \A j \in 1..max_dim :
            aligned[i][j] = IF i <= Len(matrix) /\ j <= Len(matrix) THEN matrix[i][j]
                            ELSE IF i = j THEN 0
                            ELSE Infinity

\* C22: align_ssdt_matrices returns two square matrices of the dimension
\* max(n1, n2); every original cell is kept, every added cell of the smaller
\* matrix is infinity off the diagonal and 0 on it
C22_Alignment ==
    ssdtStage = "returned" =>
        \A r \in Range(ssdt_result) :
            LET max_dim == Max(Len(r.benchmark_ssdt_matrix), Len(r.target_ssdt_matrix))
            IN  /\ IsAligned(r.aligned_benchmark_ssdt_matrix,
                             r.benchmark_ssdt_matrix, max_dim)
                /\ IsAligned(r.aligned_target_ssdt_matrix,
                             r.target_ssdt_matrix, max_dim)

\* the target has fewer nodes than the benchmark and is padded
C22_Witness ==
    /\ ssdtStage = "returned"
    /\ \E r \in Range(ssdt_result) :
        /\ Len(r.target_ssdt_matrix) > 0
        /\ Len(r.target_ssdt_matrix) < Len(r.benchmark_ssdt_matrix)
        /\ Len(r.aligned_target_ssdt_matrix) = Len(r.benchmark_ssdt_matrix)

\* the cells that are equal in the overlap of the two unaligned matrices
OverlapMatches(matrix1, matrix2) ==
    LET n == Min(Len(matrix1), Len(matrix2))
    IN  Cardinality({c \in (1..n) \X (1..n) :
                        matrix1[c[1]][c[2]] = matrix2[c[1]][c[2]]})

\* C23: the SSDT score is the number of equal cells divided by min(n1, n2)^2,
\* counted over the overlap of the unaligned matrices; padded cells are not
\* compared
C23_OverlapScore ==
    ssdtStage = "returned" =>
        \A r \in Range(ssdt_result) :
            LET n == Min(Len(r.benchmark_ssdt_matrix), Len(r.target_ssdt_matrix))
            IN  n > 0 =>
                    SameValue(r.ssdt_similarity,
                              Ratio(OverlapMatches(r.benchmark_ssdt_matrix,
                                                   r.target_ssdt_matrix), n * n))

\* C29: the similarity 1.0 is returned only for two graphs with the same
\* number of nodes and identical distance matrices
C29_FullScoreOnlyForEqualMatrices ==
    ssdtStage = "returned" =>
        \A r \in Range(ssdt_result) :
            (r.ssdt_similarity.den # 0 /\ r.ssdt_similarity.num = r.ssdt_similarity.den) =>
                /\ Len(r.benchmark_nodes) = Len(r.target_nodes)
                /\ r.benchmark_ssdt_matrix = r.target_ssdt_matrix

====
